---- MODULE Spec2Model ----
(***************************************************************************)
(* Idempotent order submission of the treasury-yield application:          *)
(* the checkIdempotency middleware (packages/api/src/middlewares), the     *)
(* orders controller and the in-memory orders service, the yields service, *)
(* and the web client's submitOrder and orders context.                    *)
(*                                                                         *)
(* JavaScript values are tagged records ([t |-> "string", s |-> ...]).     *)
(* Instants are [day, ms]: day since the Unix epoch and millisecond of     *)
(* that day, because a millisecond count of ten years does not fit the     *)
(* model checker's integers.  Numbers are hi * 10^6 + lo + frac / 100.     *)
(*                                                                         *)
(* Spec        the server; a request is handled in one step, as in Node.   *)
(* SpecRace    the same handlers with next() deferred (design section 5).  *)
(* SpecClient  the web client's order form in front of the server.         *)
(* SpecOrders  the orders service called directly, and GET /api/orders.     *)
(* SpecYields  the yields service with its fallback cache, GET /api/yields. *)
(* SpecTimer   the server with the hourly sweep run when its timer is due.  *)
(* SpecView    the web client's orders context in front of the server.      *)
(***************************************************************************)
EXTENDS Integers, Sequences, FiniteSets, TLC

VARIABLES
    orders,            \* ordersService: const orders: Order[]
    idempotencyStore,  \* checkIdempotency: Map key -> {response, timestamp}
    now,               \* the server clock (Date.now())
    req,               \* the POST request handled by the last step, if any
    res,               \* the response sent by the last step, if any
    invoked,           \* whether the last step called next() (the controller)
    orderKey,          \* history: per order, the Idempotency-Key of its request
    sent,              \* history: per recorded key, the response originalJson sent
    evicted,           \* history: keys whose record a sweep has removed
    pc,                \* SpecRace: per request, where its handling stands
    client,            \* SpecClient: the web client's form and its requests
    yieldsCache,       \* yieldsService: let yieldsCache: YieldsCache | null
    view,              \* OrdersProvider: its state and the loads it has started
    FRED_API_KEY,      \* process.env.FRED_API_KEY
    sweepTimer         \* the instant at which setInterval next runs its callback

vars == <<orders, idempotencyStore, now, req, res, invoked, orderKey, sent,
          evicted, pc, client, yieldsCache, view, FRED_API_KEY, sweepTimer>>

---------------------------------------------------------------------------
(* Bounds of the model *)

\* the orders array holds at most MaxOrders orders
MaxOrders == 2
\* the clock runs from day StartDay to day StartDay + MaxDay, and within a day
\* shows the milliseconds of MsOfDay
MaxDay == 1
StartDay == 20000
MsOfDay == {0, 1}

---------------------------------------------------------------------------
(* JavaScript values *)

Undefined == [t |-> "undefined"]
Null == [t |-> "null"]
Str(s) == [t |-> "string", s |-> s]
\* the string "YYYY-MM-DD" of the calendar day `day`
IsoDate(day) == [t |-> "string", iso |-> day]
Num(hi, lo, frac) == [t |-> "number", hi |-> hi, lo |-> lo, frac |-> frac]
N(n) == Num(0, n, 0)
Neg(n) == Num(-1, 1000000 - n, 0)
DateObj(day, ms) == [t |-> "date", valid |-> TRUE, day |-> day, ms |-> ms]
InvalidDate == [t |-> "date", valid |-> FALSE]
Obj(fields) == [t |-> "object", o |-> fields]

NumLt(a, b) ==
    \/ a.hi < b.hi
    \/ a.hi = b.hi /\ a.lo < b.lo
    \/ a.hi = b.hi /\ a.lo = b.lo /\ a.frac < b.frac

IsString(v) == v.t = "string"
IsNumber(v) == v.t = "number"
StrOf(v) == IF "s" \in DOMAIN v THEN v.s ELSE "YYYY-MM-DD"

\* JavaScript truthiness: !v is ~Truthy(v)
Truthy(v) ==
    CASE v.t = "undefined" -> FALSE
      [] v.t = "null" -> FALSE
      [] v.t = "string" -> StrOf(v) /= ""
      [] v.t = "number" -> v /= N(0)
      [] OTHER -> TRUE

Trim(s) == IF s \in {" ", "  "} THEN "" ELSE s

\* property read: a missing property reads as undefined
Get(o, f) == IF f \in DOMAIN o THEN o[f] ELSE Undefined

MS_PER_DAY == 24 * 60 * 60 * 1000

\* instant a is strictly earlier than instant b
Before(a, b) == a.day < b.day \/ (a.day = b.day /\ a.ms < b.ms)

\* new Date(d.getTime() - n)
MinusMs(d, n) ==
    [day |-> d.day + ((d.ms - n) \div MS_PER_DAY), ms |-> (d.ms - n) % MS_PER_DAY]

\* new Date(v) for the values a JSON body can carry
NewDate(v) ==
    CASE v.t = "string" /\ "iso" \in DOMAIN v -> DateObj(v.iso, 0)
      [] v.t = "number" /\ v.hi = 0 -> DateObj(v.lo \div MS_PER_DAY, v.lo % MS_PER_DAY)
      [] v.t = "null" -> DateObj(0, 0)
      [] OTHER -> InvalidDate

RECURSIVE Join(_, _)
Join(seq, sep) ==
    IF Len(seq) = 0 THEN ""
    ELSE IF Len(seq) = 1 THEN seq[1]
    ELSE seq[1] \o sep \o Join(Tail(seq), sep)

---------------------------------------------------------------------------
(* constants/fredConstants and ordersService *)

TREASURY_SERIES == [term \in {"1Y", "10Y"} |-> IF term = "1Y" THEN "DGS1" ELSE "DGS10"]
VALID_TERMS == <<"1Y", "10Y">>
IsValidTerm(s) == s \in DOMAIN TREASURY_SERIES

MAX_AMOUNT == Num(1000000, 0, 0)
MAX_RATE == N(100)
\* the days of the ten calendar years that end on a day of the model's clock
\* (three of them leap years)
TenYearsDays == 3653

Err(field, message) == [field |-> field, message |-> message]

TermErrors(od) ==
    IF ~Truthy(od.term) \/ ~IsString(od.term)
    THEN <<Err("term", "Term is required and must be a string")>>
    ELSE IF ~IsValidTerm(StrOf(od.term))
    THEN <<Err("term", "Invalid term. Must be one of: " \o Join(VALID_TERMS, ", "))>>
    ELSE <<>>

AmountErrors(od) ==
    LET a == od.amount_in_cents IN
    IF a.t \in {"undefined", "null"}
    THEN <<Err("amount_in_cents", "Amount in cents is required")>>
    ELSE IF ~IsNumber(a)
    THEN <<Err("amount_in_cents", "Amount in cents must be a number")>>
    ELSE IF a.frac /= 0
    THEN <<Err("amount_in_cents", "Amount in cents must be an integer")>>
    ELSE IF ~NumLt(N(0), a)
    THEN <<Err("amount_in_cents", "Amount in cents must be greater than 0")>>
    ELSE IF NumLt(MAX_AMOUNT, a)
    THEN <<Err("amount_in_cents", "Amount exceeds maximum allowed value")>>
    ELSE <<>>

\* (a JSON body carries no NaN: the isNaN branch is not reachable from a request)
RateErrors(od) ==
    LET r == od.rate_at_submission IN
    IF r.t \in {"undefined", "null"}
    THEN <<Err("rate_at_submission", "Rate at submission is required")>>
    ELSE IF ~IsNumber(r)
    THEN <<Err("rate_at_submission", "Rate at submission must be a number")>>
    ELSE IF NumLt(r, N(0))
    THEN <<Err("rate_at_submission", "Rate at submission cannot be negative")>>
    ELSE IF NumLt(MAX_RATE, r)
    THEN <<Err("rate_at_submission", "Rate at submission cannot exceed 100%")>>
    ELSE <<>>

\* today.setHours(23, 59, 59, 999), the server running in UTC
EndOfToday(t) == [day |-> t.day, ms |-> MS_PER_DAY - 1]
\* tenYearsAgo.setFullYear(getFullYear() - 10)
TenYearsAgo(t) == [day |-> t.day - TenYearsDays, ms |-> t.ms]

\* variant: the check against the end of today is left out
CurveDateErrorsNoFuture(od, t) ==
    LET d == IF od.curve_date.t = "date" THEN od.curve_date ELSE NewDate(od.curve_date) IN
    IF ~Truthy(od.curve_date)
    THEN <<Err("curve_date", "Curve date is required")>>
    ELSE IF ~d.valid
    THEN <<Err("curve_date", "Curve date must be a valid date")>>
    ELSE IF Before(d, TenYearsAgo(t))
    THEN <<Err("curve_date", "Curve date is too far in the past")>>
    ELSE <<>>

CurveDateErrors(od, t) ==
    LET d == IF od.curve_date.t = "date" THEN od.curve_date ELSE NewDate(od.curve_date) IN
    IF ~Truthy(od.curve_date)
    THEN <<Err("curve_date", "Curve date is required")>>
    ELSE IF ~d.valid
    THEN <<Err("curve_date", "Curve date must be a valid date")>>
    ELSE (IF Before(EndOfToday(t), d)
          THEN <<Err("curve_date", "Curve date cannot be in the future")>>
          ELSE <<>>)
         \o
         (IF Before(d, TenYearsAgo(t))
          THEN <<Err("curve_date", "Curve date is too far in the past")>>
          ELSE <<>>)

\* variant: the series is not compared with the series of the term
SeriesErrorsNoCrossCheck(od) ==
    LET s == od.series_id IN
    IF ~Truthy(s) \/ ~IsString(s)
    THEN <<Err("series_id", "Series ID is required and must be a string")>>
    ELSE IF Trim(StrOf(s)) = ""
    THEN <<Err("series_id", "Series ID cannot be empty")>>
    ELSE <<>>

SeriesErrors(od) ==
    LET s == od.series_id IN
    IF ~Truthy(s) \/ ~IsString(s)
    THEN <<Err("series_id", "Series ID is required and must be a string")>>
    ELSE IF Trim(StrOf(s)) = ""
    THEN <<Err("series_id", "Series ID cannot be empty")>>
    ELSE IF Truthy(od.term) /\ IsString(od.term) /\ IsValidTerm(StrOf(od.term))
            /\ StrOf(s) /= TREASURY_SERIES[StrOf(od.term)]
    THEN <<Err("series_id",
               "Series ID does not match expected value for term " \o StrOf(od.term)
                   \o ". Expected: " \o TREASURY_SERIES[StrOf(od.term)])>>
    ELSE <<>>

\* variant: validation stops at the first field that has an error
validateOrderDataFirstOnly(od, t) ==
    LET all == TermErrors(od) \o AmountErrors(od) \o RateErrors(od)
                   \o CurveDateErrors(od, t) \o SeriesErrors(od)
    IN  IF all = <<>> THEN <<>> ELSE <<all[1]>>

\* validateOrderData: the errors it collects; it throws iff there is one
validateOrderData(od, t) ==
    TermErrors(od) \o AmountErrors(od) \o RateErrors(od)
        \o CurveDateErrors(od, t) \o SeriesErrors(od)

ErrorText(e) == e.field \o ": " \o e.message
ValidationMessage(errs) ==
    "Validation failed: " \o Join([i \in 1..Len(errs) |-> ErrorText(errs[i])], "; ")

\* Math.random().toString(36).substr(2, 9)
RandomSuffixes == {"a", "b"}

\* the Order object createOrder builds: id, created_at, then ...orderData
NewOrder(od, t, rnd) ==
    [id |-> [ts |-> t, rnd |-> rnd], created_at |-> t,
     curve_date |-> od.curve_date, term |-> od.term,
     amount_in_cents |-> od.amount_in_cents,
     rate_at_submission |-> od.rate_at_submission, series_id |-> od.series_id]

\* variant: the order is pushed before the candidate is validated
createOrderPushFirst(od, os, t, rnd) ==
    LET errs == validateOrderData(od, t)
        order == NewOrder(od, t, rnd)
    IN  IF errs /= <<>>
        THEN [threw |-> TRUE, errors |-> errs, orders |-> Append(os, order)]
        ELSE [threw |-> FALSE, order |-> order, orders |-> Append(os, order)]

\* orderService.createOrder: it throws the validation errors, or pushes the new
\* order on the orders array and returns it
createOrder(od, os, t, rnd) ==
    LET errs == validateOrderData(od, t)
        order == NewOrder(od, t, rnd)
    IN  IF errs /= <<>>
        THEN [threw |-> TRUE, errors |-> errs, orders |-> os]
        ELSE [threw |-> FALSE, order |-> order, orders |-> Append(os, order)]

\* variant: the comparator is a - b, oldest first
RECURSIVE SortNewestFirstReversed(_)
SortNewestFirstReversed(os) ==
    IF os = <<>> THEN <<>>
    ELSE LET rest == SortNewestFirstReversed(Tail(os))
             k == Cardinality({i \in 1..Len(rest) :
                                  Before(rest[i].created_at, Head(os).created_at)})
         IN  SubSeq(rest, 1, k) \o <<Head(os)>> \o SubSeq(rest, k + 1, Len(rest))

\* [...orders].sort((a, b) => b.created_at - a.created_at): a stable sort, the
\* orders of one instant stay in the order of the array
RECURSIVE SortNewestFirst(_)
SortNewestFirst(os) ==
    IF os = <<>> THEN <<>>
    ELSE LET rest == SortNewestFirst(Tail(os))
             k == Cardinality({i \in 1..Len(rest) :
                                  Before(Head(os).created_at, rest[i].created_at)})
         IN  SubSeq(rest, 1, k) \o <<Head(os)>> \o SubSeq(rest, k + 1, Len(rest))

\* Array.prototype.slice(start, end) for 0 <= start
Slice(seq, start, end) ==
    SubSeq(seq, start + 1, IF end < Len(seq) THEN end ELSE Len(seq))

\* Math.ceil(a / b) for a >= 0 and b >= 1
CeilDiv(a, b) == (a + b - 1) \div b

\* variant: the orders array itself is sorted, not a copy of it
getOrdersPaginatedInPlace(os, page, limit) ==
    LET sortedOrders == SortNewestFirst(os)
        total == Len(sortedOrders)
        startIndex == (page - 1) * limit
    IN  [orders |-> Slice(sortedOrders, startIndex, startIndex + limit),
         total |-> total, total_pages |-> CeilDiv(total, limit),
         stored |-> sortedOrders]

\* variant: the slice starts one element late
getOrdersPaginatedOffByOne(os, page, limit) ==
    LET sortedOrders == SortNewestFirst(os)
        total == Len(sortedOrders)
        startIndex == (page - 1) * limit + 1
    IN  [orders |-> Slice(sortedOrders, startIndex, startIndex + limit),
         total |-> total, total_pages |-> CeilDiv(total, limit),
         stored |-> os]

\* orderService.getOrdersPaginated, for page >= 1 and limit >= 1: the page, the
\* totals, and (stored) the orders array after the call, which sorted a copy
getOrdersPaginated(os, page, limit) ==
    LET sortedOrders == SortNewestFirst(os)
        total == Len(sortedOrders)
        startIndex == (page - 1) * limit
    IN  [orders |-> Slice(sortedOrders, startIndex, startIndex + limit),
         total |-> total, total_pages |-> CeilDiv(total, limit),
         stored |-> os]

\* variant: the orders carry the key of their request and find matches on it
FindOrderByRequestKey(os, key) ==
    {i \in 1..Len(os) : i \in DOMAIN orderKey /\ orderKey[i] = key}

\* orderService.findOrderByIdempotencyKey: the indexes orders.find looks at
FindOrderByIdempotencyKey(os, key) ==
    {i \in 1..Len(os) : "idempotencyKey" \in DOMAIN os[i] /\ os[i].idempotencyKey = key}

---------------------------------------------------------------------------
(* ordersController.createOrder and the checkIdempotency middleware *)

Response(status, body) == [kind |-> "sent", status |-> status, body |-> body]
NoResponse == [kind |-> "none"]
NoRequest == [kind |-> "none"]
Request(header, body) == [kind |-> "post", key |-> header, body |-> body]

MissingKeyBody == [error |-> "Missing Idempotency-Key header"]
MissingFieldsBody ==
    [success |-> FALSE,
     error |-> "Missing required fields: curve_date, term, series_id, amount_cents, rate"]
ValidationBody(errs) == [success |-> FALSE, error |-> ValidationMessage(errs)]
FailedBody == [success |-> FALSE, error |-> "Failed to create order"]
CreatedBody(order) == [success |-> TRUE, data |-> order]
ExistsBody(order) ==
    [success |-> TRUE, data |-> order, message |-> "Order already exists (idempotent)"]

\* the object the controller hands to orderService.createOrder
OrderData(b) ==
    [curve_date |-> NewDate(Get(b, "curve_date")), term |-> Get(b, "term"),
     amount_in_cents |-> Get(b, "amount_in_cents"),
     rate_at_submission |-> Get(b, "rate_at_submission"),
     series_id |-> Get(b, "series_id")]

\* variant: the controller has no check of its own and leaves all to validation
MissingRequiredNever(b) == FALSE

\* the controller's check of the destructured fields
MissingRequired(b) ==
    \/ ~Truthy(Get(b, "curve_date"))
    \/ ~Truthy(Get(b, "term"))
    \/ ~Truthy(Get(b, "series_id"))
    \/ Get(b, "amount_in_cents") = Undefined
    \/ Get(b, "rate_at_submission") = Undefined

\* variant: the 201 is sent for an order that is not stored
CreateOrderHandlerNoPush(key, body, os, t, rnd) ==
    IF body.t /= "object"
    THEN [res |-> Response(500, FailedBody), orders |-> os]
    ELSE LET errs == validateOrderData(OrderData(body.o), t)
             order == NewOrder(OrderData(body.o), t, rnd)
         IN  IF MissingRequired(body.o)
             THEN [res |-> Response(400, MissingFieldsBody), orders |-> os]
             ELSE IF errs /= <<>>
             THEN [res |-> Response(400, ValidationBody(errs)), orders |-> os]
             ELSE [res |-> Response(201, CreatedBody(order)), orders |-> os]

\* orderController.createOrder: the response it sends and the orders array after
\* it.  A request without a parsed body (req.body undefined) makes orderData.term
\* throw a TypeError, which the catch block answers with the 500.
CreateOrderHandler(key, body, os, t, rnd) ==
    IF body.t /= "object"
    THEN [res |-> Response(500, FailedBody), orders |-> os]
    ELSE LET existing == FindOrderByIdempotencyKey(os, key)
             errs == validateOrderData(OrderData(body.o), t)
             order == NewOrder(OrderData(body.o), t, rnd)
         IN  IF existing /= {}
             THEN [res |-> Response(200, ExistsBody(os[CHOOSE i \in existing :
                                                   \A j \in existing : i <= j])),
                   orders |-> os]
             ELSE IF MissingRequired(body.o)
             THEN [res |-> Response(400, MissingFieldsBody), orders |-> os]
             ELSE IF errs /= <<>>
             THEN [res |-> Response(400, ValidationBody(errs)), orders |-> os]
             ELSE [res |-> Response(201, CreatedBody(order)),
                   orders |-> Append(os, order)]

\* parseInt of a query parameter: the integer it reads, or NaN
QueryInts ==
    [q \in {"-1", "0", "1", "2", "3", "10", "100", "101"} |->
        CASE q = "-1" -> -1 [] q = "0" -> 0 [] q = "1" -> 1 [] q = "2" -> 2
          [] q = "3" -> 3 [] q = "10" -> 10 [] q = "100" -> 100
          [] q = "101" -> 101]
NaN == [nan |-> TRUE]
ParseInt(v) ==
    IF v.t = "string" /\ StrOf(v) \in DOMAIN QueryInts
    THEN [nan |-> FALSE, n |-> QueryInts[StrOf(v)]]
    ELSE NaN
\* parseInt(v) || d: NaN and 0 are falsy
ParseIntOr(v, d) ==
    LET n == ParseInt(v) IN IF n.nan \/ n.n = 0 THEN d ELSE n.n

PageErrorBody == [success |-> FALSE, error |-> "Page must be greater than 0"]
LimitErrorBody == [success |-> FALSE, error |-> "Limit must be between 1 and 100"]
OrdersBody(out, page, limit) ==
    [success |-> TRUE, data |-> out.orders,
     pagination |-> [page |-> page, limit |-> limit, total |-> out.total,
                     total_pages |-> out.total_pages]]

\* variant: the limit is not checked against 100
GetOrdersHandlerNoLimitCap(pageQuery, limitQuery, os) ==
    LET page == ParseIntOr(pageQuery, 1)
        limit == ParseIntOr(limitQuery, 10)
        out == getOrdersPaginated(os, page, limit)
    IN  IF page < 1
        THEN [res |-> Response(400, PageErrorBody), orders |-> os]
        ELSE IF limit < 1
        THEN [res |-> Response(400, LimitErrorBody), orders |-> os]
        ELSE [res |-> Response(200, OrdersBody(out, page, limit)),
              orders |-> out.stored]

\* orderController.getOrders: the response it sends and the orders array after it
GetOrdersHandler(pageQuery, limitQuery, os) ==
    LET page == ParseIntOr(pageQuery, 1)
        limit == ParseIntOr(limitQuery, 10)
        out == getOrdersPaginated(os, page, limit)
    IN  IF page < 1
        THEN [res |-> Response(400, PageErrorBody), orders |-> os]
        ELSE IF limit < 1 \/ limit > 100
        THEN [res |-> Response(400, LimitErrorBody), orders |-> os]
        ELSE [res |-> Response(200, OrdersBody(out, page, limit)),
              orders |-> out.stored]

\* variant: the record keeps the default status instead of res.statusCode
StoredRecordDefaultStatus(status, body, t) ==
    [response |-> [status |-> 200, data |-> body], timestamp |-> t]

\* what the wrapped res.json stores for the key
StoredRecord(status, body, t) ==
    [response |-> [status |-> status, data |-> body], timestamp |-> t]

\* variant: the replay of a created order is rewritten to the 200 "already exists"
ReplayAsExisting(record) ==
    IF record.response.status = 201
    THEN Response(200, ExistsBody(record.response.data.data))
    ELSE Response(record.response.status, record.response.data)

\* res.status(existingResponse.response.status).json(existingResponse.response.data)
Replay(record) == Response(record.response.status, record.response.data)

\* a Map with key k set to v
MapSet(m, k, v) == [x \in DOMAIN m \cup {k} |-> IF x = k THEN v ELSE m[x]]
MapRestrict(m, keep) == [x \in DOMAIN m \cap keep |-> m[x]]

\* variant: only responses below 400 are recorded
RecordOnlySuccess(store, key, status, body, t) ==
    IF status < 400 THEN MapSet(store, key, StoredRecord(status, body, t)) ELSE store

\* variant: server errors are not recorded
RecordUnlessServerError(store, key, status, body, t) ==
    IF status < 500 THEN MapSet(store, key, StoredRecord(status, body, t)) ELSE store

\* the wrapped res.json: idempotencyStore.set(idempotencyKey, {...})
RecordResponse(store, key, status, body, t) ==
    MapSet(store, key, StoredRecord(status, body, t))

\* variant: the lookup never finds the record
HasRecordNever(store, header) == FALSE

\* variant: only a recorded success short-circuits the request
HasRecordOfSuccess(store, header) ==
    /\ Truthy(header)
    /\ StrOf(header) \in DOMAIN store
    /\ store[StrOf(header)].response.status < 400

\* the gate's lookup: idempotencyStore.get(idempotencyKey)
HasRecord(store, header) == Truthy(header) /\ StrOf(header) \in DOMAIN store

\* variant: the gate without its check of the header
CheckIdempotencyNoKeyCheck(header, body, os, store, t, rnd) ==
    LET key == IF Truthy(header) THEN StrOf(header) ELSE "undefined" IN
    IF key \in DOMAIN store
    THEN [res |-> Replay(store[key]), orders |-> os, store |-> store,
          invoked |-> FALSE]
    ELSE LET out == CreateOrderHandler(key, body, os, t, rnd) IN
         [res |-> out.res, orders |-> out.orders,
          store |-> RecordResponse(store, key, out.res.status, out.res.body, t),
          invoked |-> TRUE]

\* variant: the gate treats a record older than 24 hours as absent
CheckIdempotencyChecksAge(header, body, os, store, t, rnd) ==
    IF ~Truthy(header)
    THEN [res |-> Response(400, MissingKeyBody), orders |-> os, store |-> store,
          invoked |-> FALSE]
    ELSE IF HasRecord(store, header)
            /\ ~Before(store[StrOf(header)].timestamp, MinusMs(t, MS_PER_DAY))
    THEN [res |-> Replay(store[StrOf(header)]), orders |-> os, store |-> store,
          invoked |-> FALSE]
    ELSE LET out == CreateOrderHandler(StrOf(header), body, os, t, rnd) IN
         [res |-> out.res, orders |-> out.orders,
          store |-> RecordResponse(store, StrOf(header), out.res.status,
                                   out.res.body, t),
          invoked |-> TRUE]

CheckIdempotencyRefreshOnReplay(header, body, os, store, t, rnd) ==
    IF ~Truthy(header)
    THEN [res |-> Response(400, MissingKeyBody), orders |-> os, store |-> store,
          invoked |-> FALSE]
    ELSE IF HasRecord(store, header)
    THEN [res |-> Replay(store[StrOf(header)]), orders |-> os,
          store |-> MapSet(store, StrOf(header),
                           [store[StrOf(header)] EXCEPT !.timestamp = t]),
          invoked |-> FALSE]
    ELSE LET out == CreateOrderHandler(StrOf(header), body, os, t, rnd) IN
         [res |-> out.res, orders |-> out.orders,
          store |-> RecordResponse(store, StrOf(header), out.res.status,
                                   out.res.body, t),
          invoked |-> TRUE]

\* checkIdempotency followed, on next(), by the controller: one synchronous run
CheckIdempotency(header, body, os, store, t, rnd) ==
    IF ~Truthy(header)
    THEN [res |-> Response(400, MissingKeyBody), orders |-> os, store |-> store,
          invoked |-> FALSE]
    ELSE IF HasRecord(store, header)
    THEN [res |-> Replay(store[StrOf(header)]), orders |-> os, store |-> store,
          invoked |-> FALSE]
    ELSE LET out == CreateOrderHandler(StrOf(header), body, os, t, rnd) IN
         [res |-> out.res, orders |-> out.orders,
          store |-> RecordResponse(store, StrOf(header), out.res.status,
                                   out.res.body, t),
          invoked |-> TRUE]

\* setInterval(cleanupOldEntries, 60 * 60 * 1000)
SWEEP_INTERVAL == 60 * 60 * 1000
\* new Date(d.getTime() + n)
PlusMs(d, n) ==
    [day |-> d.day + ((d.ms + n) \div MS_PER_DAY), ms |-> (d.ms + n) % MS_PER_DAY]

\* cleanupOldEntries: the keys it keeps
oneDayAgo(t) == MinusMs(t, 24 * 60 * 60 * 1000)
\* variant: a record exactly 24 hours old is removed too
ExpiredInclusive(record, t) == ~Before(oneDayAgo(t), record.timestamp)

Expired(record, t) == Before(record.timestamp, oneDayAgo(t))
KeptKeys(store, t) == {k \in DOMAIN store : ~Expired(store[k], t)}

---------------------------------------------------------------------------
(* The requests the model sends *)

Body1Y ==
    Obj([curve_date |-> IsoDate(StartDay), term |-> Str("1Y"),
         amount_in_cents |-> N(100000), rate_at_submission |-> Num(0, 4, 25),
         series_id |-> Str("DGS1")])
Body10Y ==
    Obj([curve_date |-> IsoDate(StartDay), term |-> Str("10Y"),
         amount_in_cents |-> N(250000), rate_at_submission |-> Num(0, 4, 50),
         series_id |-> Str("DGS10")])
BodyInvalid ==
    Obj([curve_date |-> IsoDate(StartDay), term |-> Str("1Y"),
         amount_in_cents |-> Neg(5), rate_at_submission |-> N(150),
         series_id |-> Str("DGS1")])
BodyMissing == Obj([amount_in_cents |-> N(100000)])
Bodies == {Body1Y, Body10Y, BodyInvalid, BodyMissing, Undefined}
ValidBodies == {Body1Y, Body10Y}

Keys == {"k1", "k2"}
\* the header with a key, and absent or empty
KeyHeaders == {Str(k) : k \in Keys}
NoKeyHeaders == {Undefined, Str("")}
Headers == NoKeyHeaders \cup KeyHeaders
\* the bodies sent without a key
NoKeyBodies == {Body1Y, BodyInvalid}

\* the query of GET /api/orders: the order history's first page, and page 2 of
\* pages of one order
HistoryQueries ==
    {[page |-> Undefined, limit |-> Undefined], [page |-> Str("2"), limit |-> Str("1")]}
\* each parameter absent, below, at and above its bounds, and not a number
PageQueries == {Undefined, Str("-1"), Str("0"), Str("1"), Str("2"), Str("abc")}
LimitQueries == {Undefined, Str("0"), Str("1"), Str("100"), Str("101"), Str("abc")}
\* one parameter sent alone, and both sent together
Queries ==
    {[page |-> p, limit |-> Undefined] : p \in PageQueries}
        \cup {[page |-> Undefined, limit |-> l] : l \in LimitQueries}
        \cup {[page |-> Str("2"), limit |-> Str("1")],
              [page |-> Str("0"), limit |-> Str("0")],
              [page |-> Str("-1"), limit |-> Str("101")]}

---------------------------------------------------------------------------
(* The web client: OrderSubmission.handleSubmit and server.submitOrder *)

\* yieldsData, as GET /api/yields delivered it
YieldsData ==
    [term \in {"1Y", "10Y"} |->
        IF term = "1Y"
        THEN [value |-> Num(0, 4, 25), date |-> StartDay, series_id |-> "DGS1"]
        ELSE [value |-> Num(0, 4, 50), date |-> StartDay, series_id |-> "DGS10"]]

\* Math.round(parseFloat(amount) * 100) of the amounts the model types in
AmountInCents(amount) == IF amount = "1000.00" THEN N(100000) ELSE N(250000)
FormAmounts == {"1000.00", "2500.00"}

\* the JSON body submitOrder sends
SubmitBody(term, amount) ==
    Obj([curve_date |-> IsoDate(YieldsData[term].date), term |-> Str(term),
         amount_in_cents |-> AmountInCents(amount),
         rate_at_submission |-> YieldsData[term].value,
         series_id |-> Str(YieldsData[term].series_id)])

\* `${Date.now()}-${Math.random().toString(36).substr(2, 9)}`
GeneratedKeys == Keys

NoWire == [stage |-> "idle"]

ClientInit ==
    [selectedTerm |-> "", amount |-> "", isSubmitting |-> FALSE,
     logical |-> 0,      \* history: the number of orders the user has filled in
     wire |-> NoWire,    \* the fetch in flight
     reached |-> {}]     \* history: (logical order, key) of the requests served

---------------------------------------------------------------------------
(* The yields service and GET /api/yields *)

\* what fetchFREDData gives for one series: the response's observations, or
\* the error it throws
Observation(date, value) == [date |-> date, value |-> value]
FetchOk(obs) == [ok |-> TRUE, observations |-> obs]
FetchFailed(message, status) == [ok |-> FALSE, message |-> message, status |-> status]

\* parseFloat of an observation's value, in hundredths of a percent
YieldValues == [v \in {"4.25", "3.90"} |-> IF v = "4.25" THEN 425 ELSE 390]
ParseFloat(v) ==
    IF v.t = "string" /\ StrOf(v) \in DOMAIN YieldValues
    THEN [nan |-> FALSE, n |-> YieldValues[StrOf(v)]]
    ELSE NaN

\* new Date(year, month - 1, day) of a YYYY-MM-DD string: midnight of that day
LocalMidnight(date) == DateObj(date.iso, 0)

\* yieldsService.parseFREDData
parseFREDData(fredData, series_id, term) ==
    LET kept == SelectSeq(fredData.observations,
                          LAMBDA obs : obs.value /= Str(".") /\ obs.value /= Null)
        parsed == [i \in 1..Len(kept) |->
                      [date |-> LocalMidnight(kept[i].date),
                       value |-> ParseFloat(kept[i].value),
                       term |-> term, series_id |-> series_id]]
    IN  SelectSeq(parsed, LAMBDA yieldData : ~yieldData.value.nan)

\* one element of fetchPromises, settled: the parsed data of a term or its error
FetchResult(term, fetched) ==
    IF fetched.ok
    THEN [term |-> term, seriesId |-> TREASURY_SERIES[term],
          data |-> parseFREDData(fetched, TREASURY_SERIES[term], term),
          error |-> Null]
    ELSE [term |-> term, seriesId |-> TREASURY_SERIES[term], data |-> <<>>,
          error |-> [term |-> term, seriesId |-> TREASURY_SERIES[term],
                     error |-> fetched.message, statusCode |-> fetched.status]]

\* results.forEach: the errors, and the data of the other results, in order
RECURSIVE ErrorsOf(_)
ErrorsOf(results) ==
    IF results = <<>> THEN <<>>
    ELSE (IF Head(results).error /= Null THEN <<Head(results).error>> ELSE <<>>)
             \o ErrorsOf(Tail(results))

RECURSIVE YieldsOf(_)
YieldsOf(results) ==
    IF results = <<>> THEN <<>>
    ELSE (IF Head(results).error /= Null THEN <<>> ELSE Head(results).data)
             \o YieldsOf(Tail(results))

\* the keys of yieldsByTerm, in insertion order
RECURSIVE TermsSeen(_)
TermsSeen(yields) ==
    IF yields = <<>> THEN <<>>
    ELSE LET before == TermsSeen(SubSeq(yields, 1, Len(yields) - 1))
             term == yields[Len(yields)].term
         IN  IF \E i \in 1..Len(before) : before[i] = term
             THEN before ELSE Append(before, term)

\* termYields.reduce(...): a later element replaces latest only if its date is
\* strictly later
RECURSIVE ReduceLatest(_, _)
ReduceLatest(latest, rest) ==
    IF rest = <<>> THEN latest
    ELSE ReduceLatest(IF Before(latest.date, Head(rest).date)
                      THEN Head(rest) ELSE latest,
                      Tail(rest))

MostRecentYields(yields) ==
    LET terms == TermsSeen(yields)
    IN  [i \in 1..Len(terms) |->
            LET termYields == SelectSeq(yields, LAMBDA y : y.term = terms[i])
            IN  ReduceLatest(Head(termYields), Tail(termYields))]

\* mostRecentYields.sort((a, b) => b.date - a.date): newest first, yields of
\* one date stay in the order of the array
RECURSIVE SortYieldsNewestFirst(_)
SortYieldsNewestFirst(ys) ==
    IF ys = <<>> THEN <<>>
    ELSE LET rest == SortYieldsNewestFirst(Tail(ys))
             k == Cardinality({i \in 1..Len(rest) :
                                  Before(Head(ys).date, rest[i].date)})
         IN  SubSeq(rest, 1, k) \o <<Head(ys)>> \o SubSeq(rest, k + 1, Len(rest))

\* variant: the cache is updated by every call
getAllYieldsCacheAlways(fetched, cache, t) ==
    LET results == [i \in 1..Len(VALID_TERMS) |->
                       FetchResult(VALID_TERMS[i], fetched[VALID_TERMS[i]])]
        errors == ErrorsOf(results)
        allYields == SortYieldsNewestFirst(MostRecentYields(YieldsOf(results)))
        cached == [data |-> allYields, timestamp |-> t]
    IN  IF errors /= <<>>
        THEN [result |-> [yields |-> cached.data, errors |-> <<>>,
                          fromCache |-> TRUE],
              yieldsCache |-> cached]
        ELSE [result |-> [yields |-> allYields, errors |-> errors],
              yieldsCache |-> cached]

\* variant: with a failed fetch the fetched yields are returned, not the cache
getAllYieldsNoFallback(fetched, cache, t) ==
    LET results == [i \in 1..Len(VALID_TERMS) |->
                       FetchResult(VALID_TERMS[i], fetched[VALID_TERMS[i]])]
        errors == ErrorsOf(results)
        allYields == SortYieldsNewestFirst(MostRecentYields(YieldsOf(results)))
        cached == IF errors = <<>>
                  THEN [data |-> allYields, timestamp |-> t] ELSE cache
    IN  [result |-> [yields |-> allYields, errors |-> errors],
         yieldsCache |-> cached]

\* yieldsService.getAllYields, from the settlement of Promise.all on: fetched
\* gives, per term, what fetchFREDData gave; the result it returns and the
\* cache after it
getAllYields(fetched, cache, t) ==
    LET results == [i \in 1..Len(VALID_TERMS) |->
                       FetchResult(VALID_TERMS[i], fetched[VALID_TERMS[i]])]
        errors == ErrorsOf(results)
        allYields == SortYieldsNewestFirst(MostRecentYields(YieldsOf(results)))
        cached == IF errors = <<>>
                  THEN [data |-> allYields, timestamp |-> t] ELSE cache
    IN  IF errors /= <<>> /\ cached /= Null
        THEN [result |-> [yields |-> cached.data, errors |-> <<>>,
                          fromCache |-> TRUE],
              yieldsCache |-> cached]
        ELSE [result |-> [yields |-> allYields, errors |-> errors],
              yieldsCache |-> cached]

NoApiKeyBody == [success |-> FALSE, error |-> "FRED API key not configured"]
FetchFailedBody(errors) ==
    [success |-> FALSE,
     error |-> "Failed to fetch yield data: "
                   \o Join([i \in 1..Len(errors) |->
                               errors[i].term \o " - " \o errors[i].error], ", "),
     errors |-> errors]
YieldsBody(result, t) ==
    LET base == [success |-> TRUE, data |-> result.yields, fetched_at |-> t]
        withErrors == IF Len(result.errors) > 0
                      THEN [success |-> TRUE, data |-> result.yields,
                            fetched_at |-> t, errors |-> result.errors]
                      ELSE base
    IN  IF "fromCache" \in DOMAIN result
        THEN [success |-> TRUE, data |-> result.yields, fetched_at |-> t,
              fromCache |-> TRUE]
        ELSE withErrors

\* yieldsController.getYields: the response it sends and the cache after it
getYields(apiKey, fetched, cache, t) ==
    IF ~Truthy(apiKey)
    THEN [res |-> Response(500, NoApiKeyBody), yieldsCache |-> cache]
    ELSE LET out == getAllYields(fetched, cache, t)
             fromCache == "fromCache" \in DOMAIN out.result
         IN  IF Len(out.result.yields) = 0 /\ Len(out.result.errors) > 0
                /\ ~fromCache
             THEN [res |-> Response(500, FetchFailedBody(out.result.errors)),
                   yieldsCache |-> out.yieldsCache]
             ELSE [res |-> Response(200, YieldsBody(out.result, t)),
                   yieldsCache |-> out.yieldsCache]

---------------------------------------------------------------------------
(* The web client's orders context: OrdersProvider *)

\* the useState initial values; loads are the fetches started and not yet
\* settled, latest (history) is the page of the load started last
ViewInit ==
    [orders |-> <<>>,
     pagination |-> [page |-> 1, limit |-> 10, total |-> 0, totalPages |-> 0],
     loading |-> TRUE, error |-> Null, mounted |-> FALSE,
     loads |-> [x \in {} |-> Null], latest |-> 0, started |-> 0]

---------------------------------------------------------------------------
(* The server, each request handled in one step *)

EmptyMap == [x \in {} |-> Undefined]

Started ==
    /\ orders = <<>>
    /\ idempotencyStore = EmptyMap
    /\ now = [day |-> StartDay, ms |-> 0]
    /\ req = NoRequest
    /\ res = NoResponse
    /\ invoked = FALSE
    /\ orderKey = <<>>
    /\ sent = EmptyMap
    /\ evicted = {}
    /\ pc = EmptyMap
    /\ client = ClientInit
    /\ yieldsCache = Null
    /\ view = ViewInit
    /\ sweepTimer = [day |-> StartDay, ms |-> SWEEP_INTERVAL]

\* the state after the modules are loaded, in an environment that sets the key
Init == Started /\ FRED_API_KEY = Str("fred-key")

\* POST /api/orders with the Idempotency-Key header `header` and the parsed body
\* `body`; rnd is what Math.random() gives if an order id is generated
PostCore(header, body, rnd) ==
    \E out \in {CheckIdempotency(header, body, orders, idempotencyStore, now, rnd)} :
    LET created == Len(out.orders) > Len(orders)
        fresh == out.invoked
    IN  /\ Len(out.orders) <= MaxOrders
        /\ orders' = out.orders
        /\ idempotencyStore' = out.store
        /\ req' = Request(header, body)
        /\ res' = out.res
        /\ invoked' = out.invoked
        /\ orderKey' = IF created THEN Append(orderKey, StrOf(header)) ELSE orderKey
        /\ sent' = IF fresh THEN MapSet(sent, StrOf(header), out.res) ELSE sent

Post(header, body, rnd) ==
    PostCore(header, body, rnd) /\ UNCHANGED <<now, evicted, pc, client, yieldsCache, view, FRED_API_KEY, sweepTimer>>

\* GET /api/orders with the query parameters page and limit
GetOrders(pageQuery, limitQuery) ==
    \E out \in {GetOrdersHandler(pageQuery, limitQuery, orders)} :
        /\ orders' = out.orders
        /\ req' = [kind |-> "get", page |-> pageQuery, limit |-> limitQuery]
        /\ res' = out.res
        /\ invoked' = FALSE
        /\ UNCHANGED <<idempotencyStore, now, orderKey, sent, evicted, pc, client, yieldsCache, view, FRED_API_KEY, sweepTimer>>

\* the setInterval callback cleanupOldEntries
SweepCore ==
    /\ req' = NoRequest
    /\ res' = NoResponse
    /\ invoked' = FALSE
    /\ UNCHANGED <<orders, now, orderKey, pc, client, yieldsCache, view, FRED_API_KEY>>
    /\ LET keep == KeptKeys(idempotencyStore, now) IN
        /\ idempotencyStore' = MapRestrict(idempotencyStore, keep)
        /\ sent' = MapRestrict(sent, keep)
        /\ evicted' = evicted \cup (DOMAIN idempotencyStore \ keep)

\* the callback run at any moment: Spec leaves the timer's schedule open
Sweep == SweepCore /\ UNCHANGED sweepTimer

\* time passes
Pass(t) ==
    /\ now' = t
    /\ req' = NoRequest
    /\ res' = NoResponse
    /\ invoked' = FALSE
    /\ UNCHANGED <<orders, idempotencyStore, orderKey, sent, evicted, pc, client, yieldsCache, view, FRED_API_KEY, sweepTimer>>

\* a millisecond passes
TickMs == now.ms + 1 \in MsOfDay /\ Pass([now EXCEPT !.ms = @ + 1])

\* a day (24 hours) passes
TickDay == now.day < StartDay + MaxDay /\ Pass([now EXCEPT !.day = @ + 1])

\* Spec draws every order id with the same random suffix; the suffixes vary under
\* SpecRace and SpecClient
Next ==
    \/ \E h \in KeyHeaders, b \in Bodies : Post(h, b, "a")
    \/ \E h \in NoKeyHeaders, b \in NoKeyBodies : Post(h, b, "a")
    \/ \E q \in HistoryQueries : GetOrders(q.page, q.limit)
    \/ Sweep
    \/ TickMs
    \/ TickDay

Spec == Init /\ [][Next]_vars

---------------------------------------------------------------------------
(* Properties of the server, under Spec *)

\* the last step answered a POST that carried a key
KeyedPost == req.kind = "post" /\ Truthy(req.key)
\* the last step answered a POST from the record of its key
Replayed == KeyedPost /\ ~invoked
\* the orders created by requests that carried key k
OrdersOf(k) == {i \in 1..Len(orders) : orderKey[i] = k}
\* this step handles a POST whose key has a record
ReplayStep ==
    /\ req'.kind = "post"
    /\ Truthy(req'.key)
    /\ StrOf(req'.key) \in DOMAIN idempotencyStore

\* C1: the record of a key holds the status and body that were sent for the
\* first request with that key, and every request with that key is answered
\* with exactly that status and body.
C1_ReplayIdentical ==
    /\ \A k \in DOMAIN idempotencyStore :
           /\ k \in DOMAIN sent
           /\ idempotencyStore[k].response.status = sent[k].status
           /\ idempotencyStore[k].response.data = sent[k].body
    /\ KeyedPost => res = sent[StrOf(req.key)]

\* the same valid request was sent again and answered from the record
C1_Witness ==
    /\ Replayed
    /\ req.body = Body1Y
    /\ res.status = 201
    /\ res.body.data.term = Str("1Y")

\* C2: while no sweep has removed a record of key k, at most one order was
\* created by requests with key k, and exactly one once the first of them
\* was answered 201, however often the request is sent.
C2_AtMostOnePerKey ==
    \A k \in Keys :
        k \notin evicted =>
            /\ Cardinality(OrdersOf(k)) <= 1
            /\ (k \in DOMAIN sent /\ sent[k].status = 201)
                   => Cardinality(OrdersOf(k)) = 1

\* a valid request was sent at least twice and the key has one order
C2_Witness ==
    /\ Replayed
    /\ req.body \in ValidBodies
    /\ StrOf(req.key) \notin evicted
    /\ Cardinality(OrdersOf(StrOf(req.key))) = 1
    /\ Len(orders) = 1

\* C3: a POST whose key has a record is answered with the recorded status and
\* body, the controller is not invoked, and no order is created, whatever
\* the body of the request.
C3_ReplayShortCircuits ==
    [][ReplayStep =>
           /\ res'.status = idempotencyStore[StrOf(req'.key)].response.status
           /\ res'.body = idempotencyStore[StrOf(req'.key)].response.data
           /\ ~invoked'
           /\ orders' = orders
           /\ orderKey' = orderKey]_vars

\* a valid body sent under the key of an earlier invalid one got the 400
C3_Witness ==
    /\ Replayed
    /\ req.body \in ValidBodies
    /\ res.status = 400
    /\ OrdersOf(StrOf(req.key)) = {}

\* C4: a POST with no or an empty Idempotency-Key header is answered 400
\* {error: "Missing Idempotency-Key header"}; orders and idempotency store
\* stay as they were and the controller is not invoked.
C4_MissingKey ==
    [][(req'.kind = "post" /\ req'.key \in {Undefined, Str("")}) =>
           /\ res' = [kind |-> "sent", status |-> 400,
                      body |-> [error |-> "Missing Idempotency-Key header"]]
           /\ ~invoked'
           /\ orders' = orders
           /\ idempotencyStore' = idempotencyStore]_vars

\* a valid order was posted without a key while orders and records exist
C4_Witness ==
    /\ req.kind = "post"
    /\ req.key = Str("")
    /\ req.body \in ValidBodies
    /\ res.status = 400
    /\ Len(orders) > 0
    /\ DOMAIN idempotencyStore /= {}

\* the repeated request of a key whose first request created an order
ReplayOfSuccess == Replayed /\ sent[StrOf(req.key)].status = 201

RecordedAs(k, st) ==
    (k \in DOMAIN sent /\ sent[k].status = st) =>
        /\ k \in DOMAIN idempotencyStore
        /\ idempotencyStore[k].response = [status |-> st, data |-> sent[k].body]
        /\ (KeyedPost /\ StrOf(req.key) = k) => (res.status = st /\ res.body = sent[k].body)

\* a request whose key has a record of status st does not reach the controller
\* and creates no order
NotHandledAgain(st) ==
    (ReplayStep /\ idempotencyStore[StrOf(req'.key)].response.status = st) =>
        (~invoked' /\ orders' = orders /\ res'.status = st)

\* C6: the 400 sent for a first-seen key is recorded against the key; later
\* requests with the key get that 400, are not validated again and create
\* no order.
C6_ValidationFailureRecorded ==
    /\ [](\A k \in Keys : RecordedAs(k, 400))
    /\ [][NotHandledAgain(400)]_vars

\* an invalid order was sent again and got the recorded validation failure
C6_Witness ==
    /\ Replayed
    /\ req.body = BodyInvalid
    /\ res.status = 400
    /\ res.body = [success |-> FALSE,
                   error |-> ValidationMessage(validateOrderData(OrderData(BodyInvalid.o), now))]
    /\ Len(validateOrderData(OrderData(BodyInvalid.o), now)) = 2

\* C7: the 500 {success: false, error: "Failed to create order"} sent for a
\* first-seen key is recorded against the key; a retry with the key replays
\* the 500 and does not reach the controller.
C7_ServerErrorRecorded ==
    /\ [](\A k \in Keys : RecordedAs(k, 500))
    /\ [][NotHandledAgain(500)]_vars

\* a valid retry under the key of a failed request got the recorded 500
C7_Witness ==
    /\ Replayed
    /\ req.body \in ValidBodies
    /\ res.status = 500
    /\ res.body = [success |-> FALSE, error |-> "Failed to create order"]

\* instant a is more than 24 hours before instant b
MoreThanADayBefore(a, b) ==
    a.day < b.day - 1 \/ (a.day = b.day - 1 /\ a.ms < b.ms)

\* C10: a sweep removes exactly the records recorded more than 24 hours before
\* now; every other record, one exactly 24 hours old included, stays as it
\* was, and so does the order collection.
C10_SweepRemovesExpired ==
    [][Sweep =>
           /\ DOMAIN idempotencyStore' =
                  {k \in DOMAIN idempotencyStore :
                       ~MoreThanADayBefore(idempotencyStore[k].timestamp, now)}
           /\ \A k \in DOMAIN idempotencyStore' :
                  idempotencyStore'[k] = idempotencyStore[k]
           /\ orders' = orders]_vars

\* a sweep has removed a record and kept one that is exactly 24 hours old
C10_Witness ==
    /\ req.kind = "none"
    /\ evicted /= {}
    /\ Len(orders) > 0
    /\ \E k \in DOMAIN idempotencyStore :
           idempotencyStore[k].timestamp = [day |-> now.day - 1, ms |-> now.ms]

---------------------------------------------------------------------------
(* The gate and the controller as separate steps: the handlers above on a      *)
(* platform where another request may run between next() and res.json, as     *)
(* section 5 of the design describes for parallel threads.  Under Spec, the   *)
(* Node build, the two run as one step.                                      *)

\* the requests that can be between the gate and the controller at once
MaxInFlight == 2
RaceIds == 1..MaxInFlight
RaceBodies == {Body1Y, BodyInvalid}

\* checkIdempotency up to next(): request id is answered, or passes the gate
RaceGate(id, header, body) ==
    /\ id \notin DOMAIN pc
    /\ req' = Request(header, body)
    /\ IF ~Truthy(header)
       THEN /\ res' = Response(400, MissingKeyBody)
            /\ invoked' = FALSE
            /\ pc' = pc
       ELSE IF HasRecord(idempotencyStore, header)
       THEN /\ res' = Replay(idempotencyStore[StrOf(header)])
            /\ invoked' = FALSE
            /\ pc' = pc
       ELSE /\ res' = NoResponse
            /\ invoked' = TRUE
            /\ pc' = MapSet(pc, id, [key |-> StrOf(header), body |-> body])
    /\ UNCHANGED <<orders, idempotencyStore, now, orderKey, sent, evicted, client, yieldsCache, view, FRED_API_KEY, sweepTimer>>

\* the controller and the wrapped res.json of a request that passed the gate
RaceHandle(id) ==
    /\ id \in DOMAIN pc
    /\ \E rnd \in RandomSuffixes :
       \E out \in {CreateOrderHandler(pc[id].key, pc[id].body, orders, now, rnd)} :
        /\ Len(out.orders) <= MaxOrders
        /\ orders' = out.orders
        /\ idempotencyStore' = RecordResponse(idempotencyStore, pc[id].key,
                                              out.res.status, out.res.body, now)
        /\ req' = Request(Str(pc[id].key), pc[id].body)
        /\ res' = out.res
        /\ invoked' = TRUE
        /\ orderKey' = IF Len(out.orders) > Len(orders)
                       THEN Append(orderKey, pc[id].key) ELSE orderKey
        /\ sent' = MapSet(sent, pc[id].key, out.res)
    /\ pc' = MapRestrict(pc, DOMAIN pc \ {id})
    /\ UNCHANGED <<now, evicted, client, yieldsCache, view, FRED_API_KEY, sweepTimer>>

\* the requests arrive within one millisecond
NextRace ==
    \/ \E id \in RaceIds, h \in Headers, b \in RaceBodies : RaceGate(id, h, b)
    \/ \E id \in RaceIds : RaceHandle(id)

SpecRace == Init /\ [][NextRace]_vars

---------------------------------------------------------------------------
(* The web client in front of the server *)

\* the logical orders the user fills in
MaxLogical == 2

\* the user fills in the empty form: a new logical order
ClientFill(term, amount) ==
    /\ client.selectedTerm = ""
    /\ ~client.isSubmitting
    /\ client.logical < MaxLogical
    /\ client' = [client EXCEPT !.selectedTerm = term, !.amount = amount,
                                !.logical = @ + 1]
    /\ UNCHANGED <<orders, idempotencyStore, now, req, res, invoked, orderKey,
                   sent, evicted, pc, yieldsCache, view, FRED_API_KEY, sweepTimer>>

\* handleSubmit up to the fetch of submitOrder, which generates the key
ClientSubmit(key) ==
    /\ client.selectedTerm /= ""
    /\ client.amount /= ""
    /\ ~client.isSubmitting
    /\ client' = [client EXCEPT
                     !.isSubmitting = TRUE,
                     !.wire = [stage |-> "request", key |-> key,
                               body |-> SubmitBody(client.selectedTerm, client.amount)]]
    /\ UNCHANGED <<orders, idempotencyStore, now, req, res, invoked, orderKey,
                   sent, evicted, pc, yieldsCache, view, FRED_API_KEY, sweepTimer>>

\* the request reaches the server, which handles it
ClientServe ==
    /\ client.wire.stage = "request"
    /\ \E rnd \in RandomSuffixes : PostCore(Str(client.wire.key), client.wire.body, rnd)
    /\ client' = [client EXCEPT
                     !.wire = [stage |-> "response", result |-> res'.body],
                     !.reached = @ \cup {[logical |-> client.logical,
                                          key |-> client.wire.key]}]
    /\ UNCHANGED <<now, evicted, pc, yieldsCache, view, FRED_API_KEY, sweepTimer>>

\* the response arrives: handleSubmit after the await
ClientReceive ==
    /\ client.wire.stage = "response"
    /\ client' = IF client.wire.result.success
                 THEN [client EXCEPT !.selectedTerm = "", !.amount = "",
                                     !.isSubmitting = FALSE, !.wire = NoWire]
                 ELSE [client EXCEPT !.isSubmitting = FALSE, !.wire = NoWire]
    /\ UNCHANGED <<orders, idempotencyStore, now, req, res, invoked, orderKey,
                   sent, evicted, pc, yieldsCache, view, FRED_API_KEY, sweepTimer>>

\* the fetch rejects (the request or the response is lost): the catch block
ClientFetchFails ==
    /\ client.wire.stage \in {"request", "response"}
    /\ client' = [client EXCEPT !.isSubmitting = FALSE, !.wire = NoWire]
    /\ UNCHANGED <<orders, idempotencyStore, now, req, res, invoked, orderKey,
                   sent, evicted, pc, yieldsCache, view, FRED_API_KEY, sweepTimer>>

NextClient ==
    \/ \E term \in DOMAIN YieldsData, amount \in FormAmounts : ClientFill(term, amount)
    \/ \E key \in GeneratedKeys : ClientSubmit(key)
    \/ ClientServe
    \/ ClientReceive
    \/ ClientFetchFails
    \/ TickMs

SpecClient == Init /\ [][NextClient]_vars

\* C8, as claimed: the requests the client sends for one logical order all
\* carry the same Idempotency-Key, so no logical order is created twice.
C8_RetryReusesKey ==
    /\ \A a, b \in client.reached : a.logical = b.logical => a.key = b.key
    /\ Len(orders) <= client.logical

---------------------------------------------------------------------------
(* The orders service called directly (validateOrderData within createOrder, *)
(* getOrdersPaginated) and the controller of GET /api/orders                 *)

\* the candidate the controller builds from the body of a valid 1Y order
BaseCandidate == OrderData(Body1Y.o)

\* every combination of a good and a bad value of each field
CrossCandidates ==
    {[curve_date |-> c, term |-> tm, amount_in_cents |-> a,
      rate_at_submission |-> r, series_id |-> sr] :
        c \in {DateObj(StartDay, 0), DateObj(StartDay + 1, 0)},
        tm \in {Str("1Y"), Str("")},
        a \in {N(100000), Neg(5)},
        r \in {Num(0, 4, 25), N(150)},
        sr \in {Str("DGS1"), Str("")}}

\* the base candidate with one field missing, of another type, or just beyond a
\* limit of its check
TermValues == {Str("10Y"), Str("2Y"), N(5), Undefined}
AmountValues ==
    {Num(1000000, 1, 0), N(0), Num(0, 100, 50), Undefined, Null, Str("100")}
RateValues == {Num(0, 100, 1), Neg(1), Undefined, Null, Str("4")}
CurveDateValues ==
    {DateObj(StartDay - TenYearsDays - 1, 0), InvalidDate, Undefined, Null}
SeriesValues == {Str("DGS10"), Str(" "), Undefined, N(1)}
EdgeCandidates ==
    {[BaseCandidate EXCEPT !.term = v] : v \in TermValues}
        \cup {[BaseCandidate EXCEPT !.amount_in_cents = v] : v \in AmountValues}
        \cup {[BaseCandidate EXCEPT !.rate_at_submission = v] : v \in RateValues}
        \cup {[BaseCandidate EXCEPT !.curve_date = v] : v \in CurveDateValues}
        \cup {[BaseCandidate EXCEPT !.series_id = v] : v \in SeriesValues}

\* candidates with their fields at the limits of the checks: the largest amount,
\* the rates 0 and 100, the last millisecond of today, ten years ago to the
\* millisecond of the first instant of the clock
LimitCandidates ==
    {[BaseCandidate EXCEPT !.amount_in_cents = MAX_AMOUNT,
                           !.rate_at_submission = N(0),
                           !.curve_date = DateObj(StartDay, MS_PER_DAY - 1)],
     [OrderData(Body10Y.o) EXCEPT !.rate_at_submission = N(100),
                                  !.curve_date = DateObj(StartDay - TenYearsDays, 0)]}

Candidates ==
    CrossCandidates \cup EdgeCandidates \cup LimitCandidates \cup {OrderData(Body10Y.o)}

ListPages == {1, 2, 3}
ListLimits == {1, 2, 100}

\* orderService.createOrder(od)
ServiceCreate(od) ==
    \E out \in {createOrder(od, orders, now, "a")} :
        /\ Len(out.orders) <= MaxOrders
        /\ orders' = out.orders
        /\ req' = [kind |-> "create", candidate |-> od]
        /\ res' = IF out.threw THEN [kind |-> "threw", errors |-> out.errors]
                  ELSE [kind |-> "returned", order |-> out.order]
        /\ invoked' = FALSE
        /\ UNCHANGED <<idempotencyStore, now, orderKey, sent, evicted, pc, client, yieldsCache, view, FRED_API_KEY, sweepTimer>>

\* orderService.getOrdersPaginated(page, limit)
ServiceList(page, limit) ==
    \E out \in {getOrdersPaginated(orders, page, limit)} :
        /\ orders' = out.stored
        /\ req' = [kind |-> "list", page |-> page, limit |-> limit]
        /\ res' = [kind |-> "listed", orders |-> out.orders, total |-> out.total,
                   total_pages |-> out.total_pages]
        /\ invoked' = FALSE
        /\ UNCHANGED <<idempotencyStore, now, orderKey, sent, evicted, pc, client, yieldsCache, view, FRED_API_KEY, sweepTimer>>

NextOrders ==
    \/ \E od \in Candidates : ServiceCreate(od)
    \/ \E page \in ListPages, limit \in ListLimits : ServiceList(page, limit)
    \/ \E q \in Queries : GetOrders(q.page, q.limit)
    \/ TickMs

SpecOrders == Init /\ [][NextOrders]_vars

---------------------------------------------------------------------------
(* Properties of the orders service, under SpecOrders *)

\* the check of each field of a candidate, at instant t
TermFails(od) == ~(IsString(od.term) /\ StrOf(od.term) \in {"1Y", "10Y"})
AmountFails(od) ==
    LET a == od.amount_in_cents IN
    ~(IsNumber(a) /\ a.frac = 0 /\ NumLt(N(0), a) /\ ~NumLt(Num(1000000, 0, 0), a))
RateFails(od) ==
    LET r == od.rate_at_submission IN
    ~(IsNumber(r) /\ ~NumLt(r, N(0)) /\ ~NumLt(N(100), r))
\* the curve date is compared with the last millisecond of the day of t (see C17)
CurveDateFails(od, t) ==
    LET c == od.curve_date IN
    ~(/\ c.t = "date"
      /\ c.valid
      /\ (c.day < t.day \/ (c.day = t.day /\ c.ms <= MS_PER_DAY - 1))
      /\ (c.day > t.day - TenYearsDays \/ (c.day = t.day - TenYearsDays /\ c.ms >= t.ms)))
SeriesFails(od) ==
    LET sr == od.series_id IN
    ~(/\ IsString(sr)
      /\ StrOf(sr) \notin {"", " "}
      /\ ~TermFails(od) => StrOf(sr) = (IF StrOf(od.term) = "1Y" THEN "DGS1" ELSE "DGS10"))
FailingFields(od, t) ==
    {f \in {"term", "amount_in_cents", "rate_at_submission", "curve_date", "series_id"} :
        CASE f = "term" -> TermFails(od)
          [] f = "amount_in_cents" -> AmountFails(od)
          [] f = "rate_at_submission" -> RateFails(od)
          [] f = "curve_date" -> CurveDateFails(od, t)
          [] f = "series_id" -> SeriesFails(od)}

\* the last step called createOrder
Created == req.kind = "create"
\* the fields named in the errors the call threw
NamedFields ==
    IF res.kind = "threw" THEN {res.errors[i].field : i \in 1..Len(res.errors)} ELSE {}

\* C11: the fields named in the failure of validateOrderData are exactly the
\* fields of the candidate whose check fails, all of them together, and the
\* validation fails if and only if there is such a field.
C11_AllViolationsReported ==
    Created =>
        /\ NamedFields = FailingFields(req.candidate, now)
        /\ res.kind = "threw" <=> FailingFields(req.candidate, now) /= {}

\* a candidate with all five fields wrong was refused with five errors
C11_Witness ==
    /\ Created
    /\ res.kind = "threw"
    /\ Len(res.errors) = 5
    /\ NamedFields =
           {"term", "amount_in_cents", "rate_at_submission", "curve_date", "series_id"}

\* C14: a createOrder call whose candidate fails validation throws, returns no
\* order (no id and no created_at are assigned), and leaves the orders array
\* exactly as it was.
C14_FailedCreateNoEffect ==
    [][(req'.kind = "create" /\ FailingFields(req'.candidate, now) /= {}) =>
           /\ orders' = orders
           /\ res'.kind = "threw"
           /\ "order" \notin DOMAIN res']_vars

\* an invalid candidate was refused while the array holds an order
C14_Witness ==
    /\ Created
    /\ FailingFields(req.candidate, now) = {"amount_in_cents"}
    /\ res.kind = "threw"
    /\ Len(orders) = 1

\* C16: every order of the array has a term of the known terms, an integer
\* amount_in_cents with 0 < amount_in_cents <= 10^12, a rate_at_submission
\* with 0 <= rate <= 100, and the series_id mapped to its term.
C16_StoredOrdersValid ==
    \A i \in 1..Len(orders) :
        LET o == orders[i] IN
        /\ o.term \in {Str("1Y"), Str("10Y")}
        /\ o.amount_in_cents.t = "number"
        /\ o.amount_in_cents.frac = 0
        /\ NumLt(N(0), o.amount_in_cents)
        /\ ~NumLt(Num(1000000, 0, 0), o.amount_in_cents)
        /\ o.rate_at_submission.t = "number"
        /\ ~NumLt(o.rate_at_submission, N(0))
        /\ ~NumLt(N(100), o.rate_at_submission)
        /\ o.series_id = (IF o.term = Str("1Y") THEN Str("DGS1") ELSE Str("DGS10"))

\* orders at the limits are stored: amount 10^12 with rate 0, and rate 100
C16_Witness ==
    /\ Len(orders) = 2
    /\ orders[1].amount_in_cents = Num(1000000, 0, 0)
    /\ orders[1].rate_at_submission = N(0)
    /\ orders[2].rate_at_submission = N(100)
    /\ orders[2].term = Str("10Y")

\* the instant ten years before instant t
TenYearsBefore(t) == [day |-> t.day - TenYearsDays, ms |-> t.ms]

\* C17, as claimed: the curve_date of every stored order is not later than the
\* order's created_at and not earlier than ten years before it.
C17_AsClaimed ==
    \A i \in 1..Len(orders) :
        /\ ~Before(orders[i].created_at, orders[i].curve_date)
        /\ ~Before(orders[i].curve_date, TenYearsBefore(orders[i].created_at))

\* C17, amended: the curve_date of every stored order is not later than the
\* last millisecond (23:59:59.999) of the day of the order's created_at, and
\* not earlier than ten years before created_at; it may be later than
\* created_at within that day.
C17_NotAfterEndOfDay ==
    \A i \in 1..Len(orders) :
        /\ \/ orders[i].curve_date.day < orders[i].created_at.day
           \/ /\ orders[i].curve_date.day = orders[i].created_at.day
              /\ orders[i].curve_date.ms <= MS_PER_DAY - 1
        /\ ~Before(orders[i].curve_date, TenYearsBefore(orders[i].created_at))

\* stored: an order whose curve_date is the end of the day it was created on,
\* and an order whose curve_date is ten years before its created_at
C17_Witness ==
    /\ \E i \in 1..Len(orders) :
           /\ orders[i].curve_date = DateObj(orders[i].created_at.day, MS_PER_DAY - 1)
           /\ Before(orders[i].created_at, orders[i].curve_date)
    /\ \E i \in 1..Len(orders) :
           orders[i].curve_date =
               DateObj(orders[i].created_at.day - TenYearsDays, orders[i].created_at.ms)

\* the arrangements of the orders array newest first: the one-to-one maps f of
\* positions to indexes with created_at never increasing along f
NewestFirstArrangements ==
    {f \in [1..Len(orders) -> 1..Len(orders)] :
        /\ \A a, b \in 1..Len(orders) : a /= b => f[a] /= f[b]
        /\ \A a, b \in 1..Len(orders) :
               a < b => ~Before(orders[f[a]].created_at, orders[f[b]].created_at)}

\* the elements of arrangement f at the positions [(page-1)*limit, page*limit)
PageOf(f, page, limit) ==
    LET first == (page - 1) * limit + 1
        last == IF page * limit < Len(orders) THEN page * limit ELSE Len(orders)
    IN  IF last < first THEN <<>>
        ELSE [k \in 1..(last - first + 1) |-> orders[f[first + k - 1]]]

\* C18: getOrdersPaginated(page, limit), for page >= 1 and 1 <= limit <= 100,
\* returns the elements at the positions [(page-1)*limit, page*limit) of the
\* orders sorted by created_at descending, total = the number of orders and
\* total_pages = ceil(total / limit); beyond the last page it returns an empty
\* list.
C18_PageOfNewestFirst ==
    (req.kind = "list" /\ req.page >= 1 /\ req.limit \in 1..100) =>
        /\ res.kind = "listed"
        /\ \E f \in NewestFirstArrangements : res.orders = PageOf(f, req.page, req.limit)
        /\ res.total = Len(orders)
        /\ res.total_pages * req.limit >= res.total
        /\ (res.total_pages - 1) * req.limit < res.total
        /\ req.page > res.total_pages => res.orders = <<>>

\* page 2 of pages of one order holds the older of two orders
C18_Witness ==
    /\ req.kind = "list"
    /\ req.page = 2
    /\ req.limit = 1
    /\ Len(orders) = 2
    /\ Before(orders[1].created_at, orders[2].created_at)
    /\ res.orders = <<orders[1]>>
    /\ res.total_pages = 2

\* the integer a query parameter stands for, d when the parameter is absent
RequestedOr(v, d) == IF v = Undefined THEN d ELSE QueryInts[v.s]
\* the parameter is absent or the decimal form of an integer
IntegerOrAbsent(v) == v = Undefined \/ v.s \in DOMAIN QueryInts

\* C20, as claimed: GET /api/orders is answered 400 when the page parameter is
\* an integer below 1 or the limit parameter an integer outside [1, 100], and
\* otherwise 200 with the requested page and limit, page being 1 and limit 10
\* only when the parameter is absent.
C20_AsClaimed ==
    (req.kind = "get" /\ IntegerOrAbsent(req.page) /\ IntegerOrAbsent(req.limit)) =>
        LET page == RequestedOr(req.page, 1)
            limit == RequestedOr(req.limit, 10)
        IN  IF page < 1 \/ limit < 1 \/ limit > 100
            THEN res.status = 400
            ELSE /\ res.status = 200
                 /\ res.body.pagination.page = page
                 /\ res.body.pagination.limit = limit

\* C21: whatever the page and limit parameters of a GET /api/orders are, a
\* listing is answered (200) only for a page >= 1 and a limit in 1..100, with
\* total_pages computed from that limit; every other request is answered
\* 400 without a listing.
C21_ListedOnlyWithinBounds ==
    req.kind = "get" =>
        /\ res.status \in {200, 400}
        /\ res.status = 200 =>
               /\ res.body.pagination.page >= 1
               /\ res.body.pagination.limit \in 1..100
               /\ res.body.pagination.total_pages * res.body.pagination.limit
                      >= Len(orders)
               /\ res.body.pagination.total_pages >= 0
        /\ res.status = 400 =>
               DOMAIN res.body = {"success", "error"}

\* a page parameter that is not a number was answered with the first page
C21_Witness ==
    /\ req.kind = "get"
    /\ req.page = Str("abc")
    /\ res.status = 200
    /\ res.body.pagination.page = 1
    /\ res.body.pagination.limit = 10
    /\ Len(orders) > 0

---------------------------------------------------------------------------
(* Properties of POST and GET /api/orders, under Spec *)

\* the last step handled a POST with a first-seen key and a JSON object as body,
\* and at least one field of the body fails its check
FreshInvalid ==
    /\ KeyedPost
    /\ invoked
    /\ req.body.t = "object"
    /\ FailingFields(OrderData(req.body.o), now) /= {}

\* the response is the 400 whose error lists, as "field: message" joined by
\* "; " after "Validation failed: ", every field of the body that fails
NamesEveryViolation ==
    LET errs == validateOrderData(OrderData(req.body.o), now) IN
    /\ res.status = 400
    /\ res.body = [success |-> FALSE, error |-> ValidationMessage(errs)]
    /\ {errs[i].field : i \in 1..Len(errs)} = FailingFields(OrderData(req.body.o), now)

\* the body lacks one of the fields, or has an empty term, curve_date or series_id
LacksRequiredField(b) ==
    \/ \E f \in {"curve_date", "term", "series_id"} : ~Truthy(Get(b, f))
    \/ \E f \in {"amount_in_cents", "rate_at_submission"} : f \notin DOMAIN b

\* C12, as claimed: a POST with a fresh key whose body fails a check, an empty
\* or missing term, curve_date or series_id included, is answered 400 with
\* "Validation failed: field: message; ..." naming every violated field.
C12_AsClaimed == FreshInvalid => NamesEveryViolation

\* C12, amended: a POST with a fresh key whose body fails a check is answered
\* 400 {success: false, error}: when the body has all five fields, with term,
\* curve_date and series_id not empty, the error is "Validation failed: field:
\* message; ..." naming every violated field; otherwise it is "Missing required
\* fields: curve_date, term, series_id, amount_cents, rate".
C12_ValidationOrMissingFields ==
    FreshInvalid =>
        IF LacksRequiredField(req.body.o)
        THEN res = [kind |-> "sent", status |-> 400,
                    body |-> [success |-> FALSE,
                              error |-> "Missing required fields: curve_date, term, series_id, amount_cents, rate"]]
        ELSE NamesEveryViolation

\* a body without term, curve_date, series_id and rate was refused
C12_Witness ==
    /\ FreshInvalid
    /\ req.body = BodyMissing
    /\ res.status = 400
    /\ {"term", "curve_date", "series_id", "rate_at_submission"}
           \subseteq FailingFields(OrderData(req.body.o), now)

\* this step is a POST that reached the controller and was answered 201
SuccessfulCreate == req'.kind = "post" /\ invoked' /\ res'.status = 201

\* C13: every step leaves the orders array as it was or appends one order at
\* its end; it appends one order exactly when it is a create that succeeded;
\* a failed create, a GET, a replay and a sweep leave every stored order in
\* its place and unchanged.
C13_AppendOnly ==
    [][/\ Len(orders') \in {Len(orders), Len(orders) + 1}
       /\ SubSeq(orders', 1, Len(orders)) = orders
       /\ Len(orders') = Len(orders) + 1 <=> SuccessfulCreate]_vars

\* a GET has listed, newest first, two orders stored oldest first, after a sweep
C13_Witness ==
    /\ req.kind = "get"
    /\ res.status = 200
    /\ evicted /= {}
    /\ Len(orders) = 2
    /\ Before(orders[1].created_at, orders[2].created_at)
    /\ res.body.data = <<orders[2], orders[1]>>

\* the last step answered a GET with page 1 of pages that hold all orders
FirstPageOfAll ==
    /\ req.kind = "get"
    /\ res.status = 200
    /\ res.body.pagination.page = 1
    /\ res.body.pagination.limit >= Len(orders)

\* how often order o occurs in the sequence seq
Occurrences(seq, o) == Cardinality({j \in 1..Len(seq) : seq[j] = o})

\* C19: after any steps, the first page of pages at least as long as the
\* orders array holds every order that was created exactly once (as often as
\* the array holds it), and nothing else.
C19_CreatedOrderListedOnce ==
    FirstPageOfAll =>
        /\ Len(res.body.data) = Len(orders)
        /\ \A i \in 1..Len(orders) :
               Occurrences(res.body.data, orders[i]) = Occurrences(orders, orders[i])

\* two orders of one millisecond, a 1Y and a 10Y, are both on the first page
C19_Witness ==
    /\ FirstPageOfAll
    /\ Len(orders) = 2
    /\ orders[1].created_at = orders[2].created_at
    /\ orders[1].term /= orders[2].term
    /\ Occurrences(res.body.data, orders[1]) = 1
    /\ Occurrences(res.body.data, orders[2]) = 1

---------------------------------------------------------------------------
(* Properties of the order ids, under SpecClient, where Math.random() varies *)

\* C15, as claimed: all orders of the array have pairwise distinct ids, orders
\* created within the same millisecond included.
C15_DistinctIds ==
    \A i, j \in 1..Len(orders) : i /= j => orders[i].id /= orders[j].id

---------------------------------------------------------------------------
(* SpecYields: GET /api/yields served over time, with every outcome of the
   fetches; the environment may lack the API key *)

Newer == Observation(IsoDate(StartDay), Str("4.25"))
Older == Observation(IsoDate(StartDay - 1), Str("3.90"))

\* per series: two errors, and observations that are complete, partly
\* missing, all missing, oldest first, of one date, and not numbers
FetchOutcomes ==
    {FetchFailed("timeout of 10000ms exceeded", Undefined),
     FetchFailed("Request failed with status code 429", N(429)),
     FetchOk(<<Newer, Older>>),
     FetchOk(<<Observation(IsoDate(StartDay), Str(".")), Older>>),
     FetchOk(<<Observation(IsoDate(StartDay), Str("."))>>),
     FetchOk(<<Older, Newer>>),
     FetchOk(<<Newer, Observation(IsoDate(StartDay), Str("3.90"))>>),
     FetchOk(<<Observation(IsoDate(StartDay), Str("n/a")),
               Observation(IsoDate(StartDay - 1), Null)>>)}

Fetches == [DOMAIN TREASURY_SERIES -> FetchOutcomes]

InitYields == Started /\ FRED_API_KEY \in {Str("fred-key"), Undefined}

\* GET /api/yields; the fetches are made only when the key is configured
GetYields(fetched) ==
    \E out \in {getYields(FRED_API_KEY, fetched, yieldsCache, now)} :
        /\ req' = IF Truthy(FRED_API_KEY)
                  THEN [kind |-> "yields", fetched |-> fetched]
                  ELSE [kind |-> "yields"]
        /\ res' = out.res
        /\ yieldsCache' = out.yieldsCache
        /\ invoked' = FALSE
        /\ UNCHANGED <<orders, idempotencyStore, now, orderKey, sent, evicted,
                       pc, client, view, FRED_API_KEY, sweepTimer>>

NextYields ==
    \/ \E fetched \in Fetches : GetYields(fetched)
    \/ TickMs
    \/ TickDay

SpecYields == InitYields /\ [][NextYields]_vars

---------------------------------------------------------------------------
(* Properties of the yields service, under SpecYields *)

\* the fetch of every term succeeded
AllFetched(fetched) == \A term \in DOMAIN fetched : fetched[term].ok
FailedTerms(fetched) == {term \in DOMAIN fetched : ~fetched[term].ok}

\* the yields that the observations fetched for a term stand for
UsableYields(fetched, term) ==
    IF ~fetched[term].ok THEN {}
    ELSE {[date |-> DateObj(o.date.iso, 0),
           value |-> [nan |-> FALSE, n |-> YieldValues[o.value.s]],
           term |-> term, series_id |-> TREASURY_SERIES[term]] :
             o \in {fetched[term].observations[i] :
                       i \in {j \in 1..Len(fetched[term].observations) :
                                 /\ "s" \in DOMAIN fetched[term].observations[j].value
                                 /\ fetched[term].observations[j].value.s
                                        \in DOMAIN YieldValues}}}

\* data is the freshly fetched data: for every term that has one, one yield
\* of its most recent observed date, the terms arranged newest first
IsFreshData(data, fetched) ==
    /\ {data[i].term : i \in 1..Len(data)}
           = {term \in DOMAIN fetched : UsableYields(fetched, term) /= {}}
    /\ \A i, j \in 1..Len(data) : i < j =>
           /\ data[i].term /= data[j].term
           /\ ~Before(data[i].date, data[j].date)
    /\ \A i \in 1..Len(data) :
           /\ data[i] \in UsableYields(fetched, data[i].term)
           /\ \A u \in UsableYields(fetched, data[i].term) :
                  ~Before(data[i].date, u.date)

\* the step is a getAllYields call
YieldsCall == req'.kind = "yields" /\ "fetched" \in DOMAIN req'

\* C22: a getAllYields call in which every fetch succeeded replaces the cache
\* by the freshly fetched data, stamped with the time of the call; a call in
\* which a fetch failed leaves the cache as it was.
C22_CacheFollowsCompleteFetches ==
    [][YieldsCall =>
          IF AllFetched(req'.fetched)
          THEN /\ yieldsCache' /= Null
               /\ yieldsCache'.timestamp = now
               /\ IsFreshData(yieldsCache'.data, req'.fetched)
          ELSE yieldsCache' = yieldsCache]_vars

\* a call with a failed fetch, and a fetched term that the cache holds with
\* another value, has left a cache written earlier as it was
C22_Witness ==
    /\ req.kind = "yields" /\ "fetched" \in DOMAIN req
    /\ ~AllFetched(req.fetched)
    /\ yieldsCache /= Null
    /\ Before(yieldsCache.timestamp, now)
    /\ \E term \in DOMAIN req.fetched :
           /\ UsableYields(req.fetched, term) /= {}
           /\ \E i \in 1..Len(yieldsCache.data) :
                  /\ yieldsCache.data[i].term = term
                  /\ yieldsCache.data[i] \notin UsableYields(req.fetched, term)

\* the error list names exactly the terms whose fetch failed, each with the
\* message and status of its failure
ErrorsOfFailedTerms(errors, fetched) ==
    /\ Len(errors) = Cardinality(FailedTerms(fetched))
    /\ {errors[i].term : i \in 1..Len(errors)} = FailedTerms(fetched)
    /\ \A i \in 1..Len(errors) :
           /\ errors[i].seriesId = TREASURY_SERIES[errors[i].term]
           /\ errors[i].error = fetched[errors[i].term].message
           /\ errors[i].statusCode = fetched[errors[i].term].status

\* the response carries the cache as it was before the call, marked
\* fromCache, without errors
AnsweredFromCache ==
    /\ res'.status = 200
    /\ res'.body.data = yieldsCache.data
    /\ "fromCache" \in DOMAIN res'.body
    /\ "errors" \notin DOMAIN res'.body

\* the response carries what the call fetched, together with the errors
AnsweredWithFetched ==
    /\ "fromCache" \notin DOMAIN res'.body
    /\ "errors" \in DOMAIN res'.body
    /\ ErrorsOfFailedTerms(res'.body.errors, req'.fetched)
    /\ res'.status = 200 => IsFreshData(res'.body.data, req'.fetched)

NoTermFetched(fetched) == \A term \in DOMAIN fetched : ~fetched[term].ok
NoYieldFetched(fetched) ==
    \A term \in DOMAIN fetched : UsableYields(fetched, term) = {}

\* C29, as stated: a call with a failed fetch is answered from the cache if
\* the cache has been written and with the fetched terms and the errors if
\* not, and GET /api/yields answers 500 only if the fetch of every term
\* failed (or none was made).
C29_AsClaimed ==
    [][req'.kind = "yields" =>
          /\ (YieldsCall /\ ~AllFetched(req'.fetched)) =>
                 IF yieldsCache /= Null
                 THEN AnsweredFromCache ELSE AnsweredWithFetched
          /\ res'.status = 500 =>
                 (YieldsCall => NoTermFetched(req'.fetched))]_vars

\* C29: a call with a failed fetch is answered from the cache if the cache
\* has been written (whatever it holds), and with the fetched terms and the
\* errors if not; GET /api/yields answers 500 exactly when the API key is not
\* configured, or a fetch failed, the cache has never been written and no
\* fetch that succeeded gave a usable observation.
C29_FallbackToCache ==
    [][req'.kind = "yields" =>
          /\ (YieldsCall /\ ~AllFetched(req'.fetched)) =>
                 IF yieldsCache /= Null
                 THEN AnsweredFromCache ELSE AnsweredWithFetched
          /\ res'.status \in {200, 500}
          /\ res'.status = 500 <=>
                 \/ ~YieldsCall
                 \/ /\ ~AllFetched(req'.fetched)
                    /\ yieldsCache = Null
                    /\ NoYieldFetched(req'.fetched)]_vars

\* a call in which one fetch failed and another gave a yield that the cache
\* does not hold was answered with the cache
C29_Witness ==
    /\ req.kind = "yields" /\ "fetched" \in DOMAIN req
    /\ ~AllFetched(req.fetched)
    /\ res.status = 200
    /\ "fromCache" \in DOMAIN res.body
    /\ res.body.data = yieldsCache.data
    /\ \E term \in DOMAIN req.fetched :
           /\ UsableYields(req.fetched, term) /= {}
           /\ \A i \in 1..Len(res.body.data) :
                  res.body.data[i] \notin UsableYields(req.fetched, term)

---------------------------------------------------------------------------
(* Properties of the idempotency records over time, under Spec *)

\* this step handles a POST that carries a key
KeyedPostStep == req'.kind = "post" /\ Truthy(req'.key)

\* C23: a replay leaves the idempotency store as it was: the record of the
\* key keeps the status, the body and the timestamp of the first response,
\* whenever the replay happens.
C23_ReplayLeavesStore ==
    [][ReplayStep =>
           /\ idempotencyStore' = idempotencyStore
           /\ ~invoked'
           /\ res'.status = idempotencyStore[StrOf(req'.key)].response.status
           /\ res'.body = idempotencyStore[StrOf(req'.key)].response.data]_vars

\* a request was replayed on a later day than its record was written, and
\* the record still carries the earlier day
C23_Witness ==
    /\ Replayed
    /\ StrOf(req.key) \in DOMAIN idempotencyStore
    /\ idempotencyStore[StrOf(req.key)].timestamp.day < now.day

\* C24: a POST with a key is handled in one step in which the controller is
\* reached exactly if the key has no record, and after which the key has a
\* record; so of the requests that carry one fresh key, in whatever order
\* they are handled, the first reaches the controller and the others are
\* replays, and while its record stays a key has at most one order.
C24_OneCreatePerFreshKey ==
    /\ [][KeyedPostStep =>
              /\ invoked' <=> StrOf(req'.key) \notin DOMAIN idempotencyStore
              /\ StrOf(req'.key) \in DOMAIN idempotencyStore'
              /\ ~invoked' => orders' = orders
              /\ Len(orders') <= Len(orders) + 1]_vars
    /\ [](\A k \in Keys : k \notin evicted => Cardinality(OrdersOf(k)) <= 1)

\* a request whose body would not pass validation carried the key of a
\* created order and was answered with that order
C24_Witness ==
    /\ Replayed
    /\ req.body = BodyInvalid
    /\ res.status = 201
    /\ Cardinality(OrdersOf(StrOf(req.key))) = 1
    /\ StrOf(req.key) \notin evicted

\* this step handles a POST with a key whose record a sweep has removed
PostAfterSweep ==
    /\ KeyedPostStep
    /\ StrOf(req'.key) \in evicted
    /\ StrOf(req'.key) \notin DOMAIN idempotencyStore

C27_RecordedOrderPersisted ==
    /\ \A k \in DOMAIN idempotencyStore :
           idempotencyStore[k].response.status = 201 =>
               \E i \in 1..Len(orders) :
                   orders[i] = idempotencyStore[k].response.data.data
    /\ (req.kind = "post" /\ res.status = 201) =>
           /\ StrOf(req.key) \in DOMAIN idempotencyStore
           /\ idempotencyStore[StrOf(req.key)].response.data = res.body

\* two keys have records of status 201, each holding another order of the
\* collection
C27_Witness ==
    /\ Len(orders) = 2
    /\ \E k1, k2 \in DOMAIN idempotencyStore :
           /\ idempotencyStore[k1].response.status = 201
           /\ idempotencyStore[k2].response.status = 201
           /\ idempotencyStore[k1].response.data.data = orders[1]
           /\ idempotencyStore[k2].response.data.data = orders[2]

---------------------------------------------------------------------------
(* SpecTimer: POST /api/orders with one key while the clock runs in steps of
   half the sweep interval and the timer runs cleanupOldEntries when it is
   due; the timer is taken to fire at the instant it is set for *)

\* the clock runs for MaxHalfHours steps
MaxHalfHours == 52
ClockStep == SWEEP_INTERVAL \div 2
TimedKey == Str("k1")
TimedBodies == {Body1Y, BodyInvalid}

StepsPassed == (now.day - StartDay) * (MS_PER_DAY \div ClockStep) + now.ms \div ClockStep

TimedPost == \E b \in TimedBodies : Post(TimedKey, b, "a")

\* the timer is due: the callback runs and the timer is set an interval later
TimerFires ==
    /\ now = sweepTimer
    /\ SweepCore
    /\ sweepTimer' = PlusMs(sweepTimer, SWEEP_INTERVAL)

\* time passes, up to the instant the timer is set for
ClockAdvances ==
    /\ StepsPassed < MaxHalfHours
    /\ ~Before(sweepTimer, PlusMs(now, ClockStep))
    /\ Pass(PlusMs(now, ClockStep))

NextTimer ==
    \/ TimedPost
    \/ TimerFires
    \/ ClockAdvances

SpecTimer == Init /\ [][NextTimer]_vars

---------------------------------------------------------------------------
(* Properties of the replay period, under SpecTimer *)

OneDayAndAnInterval == MS_PER_DAY + SWEEP_INTERVAL

\* C25: a POST whose key has a record is replayed whatever the age of the
\* record; a record leaves the store only when the timer runs the sweep; and,
\* the timer firing when due, no record is older than 24 hours plus one sweep
\* interval.
C25_ReplayedUntilSwept ==
    /\ [][ReplayStep =>
              /\ ~invoked'
              /\ res'.status = idempotencyStore[StrOf(req'.key)].response.status
              /\ res'.body = idempotencyStore[StrOf(req'.key)].response.data
              /\ orders' = orders]_vars
    /\ [][(\E k \in DOMAIN idempotencyStore : k \notin DOMAIN idempotencyStore')
              => TimerFires]_vars
    /\ [](\A k \in DOMAIN idempotencyStore :
              ~Before(idempotencyStore[k].timestamp,
                      MinusMs(now, OneDayAndAnInterval)))

\* a request was answered 201 from a record older than 24 hours that the
\* sweep, due at this instant, has not removed yet
C25_Witness ==
    /\ Replayed
    /\ res.status = 201
    /\ StrOf(req.key) \in DOMAIN idempotencyStore
    /\ Expired(idempotencyStore[StrOf(req.key)], now)
    /\ now = sweepTimer

---------------------------------------------------------------------------
(* SpecView: the web client's orders context in front of the server; its
   loads are fetches that the server answers, and that settle, in any order *)

\* at most MaxLoads loads are in flight, and MaxStarted are started in all
MaxLoads == 2
MaxStarted == 4
ViewPages == {1, 2}
LoadIds == 1..MaxStarted

\* `${page}` and `${limit}` in the URL of fetchOrders
NumberString == [n \in {1, 2, 10} |-> CASE n = 1 -> "1" [] n = 2 -> "2" [] n = 10 -> "10"]

\* loadOrders' transformation of an order of the response: curve_date becomes
\* the midnight of its day, created_at the instant of its string
TransformOrder(order) ==
    [order EXCEPT !.curve_date = DateObj(order.curve_date.day, 0)]

\* loadOrders(page) up to its await: the fetch is sent
loadOrders(page) ==
    /\ Cardinality(DOMAIN view.loads) < MaxLoads
    /\ view.started < MaxStarted
    /\ view' = [view EXCEPT
                   !.loading = TRUE,
                   !.error = Null,
                   !.loads = MapSet(@, view.started + 1,
                                    [page |-> page, limit |-> view.pagination.limit,
                                     stage |-> "request"]),
                   !.latest = page,
                   !.started = @ + 1]
    /\ UNCHANGED <<orders, idempotencyStore, now, req, res, invoked, orderKey,
                   sent, evicted, pc, client, yieldsCache, FRED_API_KEY, sweepTimer>>

\* useEffect(() => { loadOrders(1) }, []) on mount
ViewMount ==
    /\ ~view.mounted
    /\ \E v \in {[view EXCEPT !.mounted = TRUE]} :
           /\ view' = [v EXCEPT
                          !.loading = TRUE,
                          !.error = Null,
                          !.loads = MapSet(@, v.started + 1,
                                           [page |-> 1, limit |-> v.pagination.limit,
                                            stage |-> "request"]),
                          !.latest = 1,
                          !.started = @ + 1]
    /\ UNCHANGED <<orders, idempotencyStore, now, req, res, invoked, orderKey,
                   sent, evicted, pc, client, yieldsCache, FRED_API_KEY, sweepTimer>>

\* setPage(page)
ViewSetPage(page) == view.mounted /\ loadOrders(page)

\* refreshOrders(): loadOrders(pagination.page)
ViewRefresh == view.mounted /\ loadOrders(view.pagination.page)

\* the server answers the fetch of a load
ViewServe(id) ==
    /\ id \in DOMAIN view.loads
    /\ view.loads[id].stage = "request"
    /\ \E out \in {GetOrdersHandler(Str(NumberString[view.loads[id].page]),
                                    Str(NumberString[view.loads[id].limit]),
                                    orders)} :
           /\ orders' = out.orders
           /\ req' = [kind |-> "get",
                      page |-> Str(NumberString[view.loads[id].page]),
                      limit |-> Str(NumberString[view.loads[id].limit])]
           /\ res' = out.res
           /\ invoked' = FALSE
           /\ view' = [view EXCEPT !.loads[id] =
                          [page |-> view.loads[id].page,
                           limit |-> view.loads[id].limit,
                           stage |-> "response", result |-> out.res.body]]
    /\ UNCHANGED <<idempotencyStore, now, orderKey, sent, evicted, pc, client,
                   yieldsCache, FRED_API_KEY, sweepTimer>>

\* the response of a load arrives: loadOrders after its await, and finally
ViewReceive(id) ==
    /\ id \in DOMAIN view.loads
    /\ view.loads[id].stage = "response"
    /\ LET result == view.loads[id].result
           left == MapRestrict(view.loads, DOMAIN view.loads \ {id})
       IN  view' = IF result.success
                   THEN [view EXCEPT
                            !.orders = [i \in 1..Len(result.data) |->
                                           TransformOrder(result.data[i])],
                            !.pagination =
                                [page |-> result.pagination.page,
                                 limit |-> result.pagination.limit,
                                 total |-> result.pagination.total,
                                 totalPages |-> result.pagination.total_pages],
                            !.loading = FALSE,
                            !.loads = left]
                   ELSE [view EXCEPT !.error = Str("Failed to fetch orders"),
                                     !.loading = FALSE, !.loads = left]
    /\ UNCHANGED <<orders, idempotencyStore, now, req, res, invoked, orderKey,
                   sent, evicted, pc, client, yieldsCache, FRED_API_KEY, sweepTimer>>

\* the fetch of a load rejects: the catch block, and finally
ViewFetchFails(id) ==
    /\ id \in DOMAIN view.loads
    /\ view' = [view EXCEPT
                   !.error = Str("Failed to fetch"),
                   !.loading = FALSE,
                   !.loads = MapRestrict(view.loads, DOMAIN view.loads \ {id})]
    /\ UNCHANGED <<orders, idempotencyStore, now, req, res, invoked, orderKey,
                   sent, evicted, pc, client, yieldsCache, FRED_API_KEY, sweepTimer>>

NextView ==
    \/ ViewMount
    \/ \E page \in ViewPages : ViewSetPage(page)
    \/ ViewRefresh
    \/ \E id \in LoadIds : ViewServe(id)
    \/ \E id \in LoadIds : ViewReceive(id)
    \/ \E id \in LoadIds : ViewFetchFails(id)
    \/ \E h \in KeyHeaders : Post(h, Body1Y, "a")

SpecView == Init /\ [][NextView]_vars

---------------------------------------------------------------------------
(* Properties of the orders context, under SpecView *)

\* C28, as claimed: once the loads have settled without an error, the orders
\* and the pagination displayed are those the server gave for the page
\* requested last; and loading is false only when no load is in flight.
C28_AsClaimed ==
    /\ (view.mounted /\ DOMAIN view.loads = {} /\ view.error = Null) =>
           view.pagination.page = view.latest
    /\ ~view.loading => DOMAIN view.loads = {}

====
